---- MODULE Spec2Model ----
(***************************************************************************)
(* Model of demuxing_decoding/main.cpp: a sequential driver that opens an  *)
(* input container, opens one video and one audio decoder, reads packets,  *)
(* decodes them and appends the decoded payload to two raw output files.   *)
(* The libav* library calls are the environment: each call's outcome is a  *)
(* nondeterministic choice among the outcomes the API allows.              *)
(***************************************************************************)
EXTENDS Integers, Sequences, FiniteSets, TLC

\* ---------------------------------------------------------------- bounds
MaxPackets == 2      \* packets the container delivers before end of input
MaxBuf     == 1      \* frames a decoder can hold back internally

\* ------------------------------------------------- environment's value sets
Streams    == 0 .. 2     \* stream indexes of the container
PktSizes   == {1, 2}     \* pkt.size of the packets av_read_frame delivers
Widths     == {1, 2}
Heights    == {1}
PixFmts    == {"gray8", "rgb24"}
SampleFmts == {"s16", "s16p", "s64"}
Channels   == {1, 2}
NbSamples  == {2}         \* frame->nb_samples of the decoded audio frames

VARIABLES
  pc,                \* position in main
  argc,              \* main's argc
  argv1_refcount,    \* argv[1] is the string "-refcount"
  refcount,          \* static int refcount
  ret,               \* main's local ret
  exit_status,       \* -1 while running, else the process exit status
  fmt_ctx,           \* resource state of the input container
  video_dec_ctx,     \* resource state of the opened video decoder
  audio_dec_ctx,     \* resource state of the opened audio decoder
  video_dst_file,    \* resource state of the FILE* of the video output
  audio_dst_file,    \* resource state of the FILE* of the audio output
  frame,             \* resource state of the AVFrame
  video_dst_data,    \* resource state of the raw video buffer
  video_stream_idx,
  audio_stream_idx,
  width, height, pix_fmt,
  video_dst_bufsize,
  sample_fmt,        \* audio_dec_ctx->sample_fmt
  channels,          \* audio_dec_ctx->channels
  pkt,               \* [stream_index, data, size]; data is an offset, -1 is NULL
  got_frame,
  video_frame_count,
  audio_frame_count,
  video_written,     \* what fwrite appended to the video output, per call
  audio_written,     \* what fwrite appended to the audio output, per call
  vbuf, abuf,        \* frames held back inside the video / audio decoder
  nread,             \* successful av_read_frame calls
  decoder_called,    \* avcodec_decode_video2 or avcodec_decode_audio4 was called
  last,              \* the last decode_packet call: kind, size before, decoder's return
  msgs,              \* messages printed so far
  geom_changed       \* a frame of differing geometry was obtained

vars == <<pc, argc, argv1_refcount, refcount, ret, exit_status, fmt_ctx,
          video_dec_ctx, audio_dec_ctx, video_dst_file, audio_dst_file, frame,
          video_dst_data, video_stream_idx, audio_stream_idx, width, height,
          pix_fmt, video_dst_bufsize, sample_fmt, channels, pkt, got_frame,
          video_frame_count, audio_frame_count, video_written, audio_written,
          vbuf, abuf, nread, decoder_called, last, msgs, geom_changed>>

\* ---------------------------------------------------------------- helpers
FFMIN(a, b) == IF a > b THEN b ELSE a

\* av_image_alloc(.., align 1): the size of one tightly packed picture.
BytesPerPixel(f) == IF f = "rgb24" THEN 3 ELSE 1
ImageBufSize(w, h, f) == w * h * BytesPerPixel(f)

\* av_get_bytes_per_sample, av_sample_fmt_is_planar, av_get_packed_sample_fmt
av_get_bytes_per_sample(f) == IF f = "s64" THEN 8 ELSE 2
av_sample_fmt_is_planar(f) == f = "s16p"
av_get_packed_sample_fmt(f) == IF f = "s16p" THEN "s16" ELSE f

\* The bytes of sample i of channel c: <<c, i, 0>>, <<c, i, 1>>, ...
SampleBytes(c, i, bps) == [b \in 1 .. bps |-> <<c, i, b - 1>>]

RECURSIVE Concat(_)
Concat(ss) == IF ss = <<>> THEN <<>> ELSE Head(ss) \o Concat(Tail(ss))

\* frame->extended_data[0] of a decoded audio frame: channel 0's samples for a
\* planar format, all channels' samples interleaved for a packed one.
ExtendedData0(nb, f, ch) ==
  IF av_sample_fmt_is_planar(f)
  THEN Concat([i \in 1 .. nb |-> SampleBytes(0, i - 1, av_get_bytes_per_sample(f))])
  ELSE Concat([j \in 1 .. nb * ch |->
                 SampleBytes((j - 1) % ch, (j - 1) \div ch, av_get_bytes_per_sample(f))])

\* A library release call on a handle.
Release(r) == IF r = "open" THEN "released"
              ELSE IF r = "released" THEN "double" ELSE r

Say(m) == msgs \cup {m}

\* ------------------------------------------------ the decoders (libavcodec)
NoFrame(r) == [ret |-> r, got |-> FALSE, hold |-> FALSE,
               w |-> 0, h |-> 0, f |-> "none", nb |-> 0]

\* What avcodec_decode_video2 may do with the current packet: fail, or report
\* ret bytes used and hold the picture back, output a picture, or neither.
\* On an empty packet it outputs a held picture while it has one.
VideoOutcomes ==
  {NoFrame(-1)} \cup
  IF pkt.size > 0
  THEN {NoFrame(r) : r \in 0 .. pkt.size}
       \cup {[NoFrame(r) EXCEPT !.hold = TRUE] : r \in {x \in 0 .. pkt.size : vbuf < MaxBuf}}
       \cup {[ret |-> r, got |-> TRUE, hold |-> FALSE, w |-> w, h |-> h, f |-> f, nb |-> 0] :
               r \in 0 .. pkt.size, w \in Widths, h \in Heights, f \in PixFmts}
  ELSE IF vbuf > 0
       THEN {[ret |-> 0, got |-> TRUE, hold |-> FALSE, w |-> w, h |-> h, f |-> f, nb |-> 0] :
               w \in Widths, h \in Heights, f \in PixFmts}
       ELSE {NoFrame(0)}

\* What avcodec_decode_audio4 may do with the current packet.  A frame it
\* outputs from a non-empty packet used at least one byte of the packet.
AudioOutcomes ==
  {NoFrame(-1)} \cup
  IF pkt.size > 0
  THEN {NoFrame(r) : r \in 0 .. pkt.size}
       \cup {[NoFrame(r) EXCEPT !.hold = TRUE] : r \in {x \in 0 .. pkt.size : abuf < MaxBuf}}
       \cup {[ret |-> r, got |-> TRUE, hold |-> FALSE, w |-> 0, h |-> 0, f |-> sample_fmt, nb |-> n] :
               r \in 1 .. pkt.size, n \in NbSamples}
  ELSE IF abuf > 0
       THEN {[ret |-> 0, got |-> TRUE, hold |-> FALSE, w |-> 0, h |-> 0, f |-> sample_fmt, nb |-> n] :
               n \in NbSamples}
       ELSE {NoFrame(0)}

\* The decoder's own buffer after a call with outcome o on a packet of `size` bytes.
BufAfter(buf, o, size) ==
  IF o.ret < 0 THEN buf
  ELSE IF o.hold THEN buf + 1
  ELSE IF o.got /\ size = 0 THEN buf - 1
  ELSE buf

\* ---------------------------------------------------------- decode_packet
IsVideoPacket == pkt.stream_index = video_stream_idx

\* line 129 written as a plain else
IsAudioPacketElse == TRUE
IsAudioPacket == pkt.stream_index = audio_stream_idx

\* line 105 without the comparison of the pixel format
GeometryChangedSizeOnly(o) == o.w # width \/ o.h # height

\* line 105: the frame differs from the recorded width, height or pix_fmt
GeometryChanged(o) == o.w # width \/ o.h # height \/ o.f # pix_fmt

\* line 92: a video packet counts as used up whatever the decoder returned
VideoDecoded(r) == pkt.size

\* line 136
AudioDecoded(r) == FFMIN(r, pkt.size)

\* line 126: fwrite(video_dst_data[0], 1, video_dst_bufsize, video_dst_file)
VideoChunk(o, cached) ==
  [seq |-> nread, cached |-> cached, w |-> o.w, h |-> o.h, f |-> o.f,
   n |-> video_dst_bufsize]

\* lines 139, 153: fwrite(frame->extended_data[0], 1, unpadded_linesize, audio_dst_file)
AudioChunk(o, cached) ==
  LET unpadded_linesize == o.nb * av_get_bytes_per_sample(o.f)
  IN  [seq |-> nread, cached |-> cached, nb |-> o.nb,
       data |-> SubSeq(ExtendedData0(o.nb, o.f, channels), 1, unpadded_linesize)]

VideoErr == "Error decoding video frame"
AudioErr == "Error decoding audio frame"
GeomErr  == "Error: Width, height and pixel format have to be constant in a rawvideo file"

\* What one call decode_packet(&got_frame, cached) does when the decoder it
\* calls (if any) behaves as outcome o: the value returned and the new value
\* of every variable the function writes.
decode_packet(cached, o) ==
  LET same == [rv |-> pkt.size, got_frame |-> FALSE, kind |-> "other", called |-> FALSE,
               video_frame_count |-> video_frame_count,
               audio_frame_count |-> audio_frame_count,
               video_written |-> video_written, audio_written |-> audio_written,
               vbuf |-> vbuf, abuf |-> abuf, msgs |-> msgs, geom_changed |-> geom_changed]
  IN
  IF IsVideoPacket THEN
    LET v == [same EXCEPT !.kind = "video", !.called = TRUE,
                          !.vbuf = BufAfter(vbuf, o, pkt.size)]
    IN IF o.ret < 0 THEN [v EXCEPT !.rv = o.ret, !.msgs = Say(VideoErr)]
       ELSE IF o.got THEN
         IF GeometryChanged(o)
         THEN [v EXCEPT !.rv = -1, !.got_frame = TRUE, !.msgs = Say(GeomErr),
                        !.geom_changed = TRUE]
         ELSE [v EXCEPT !.rv = VideoDecoded(o.ret), !.got_frame = TRUE,
                        !.video_frame_count = video_frame_count + 1,
                        !.video_written = Append(video_written, VideoChunk(o, cached))]
       ELSE [v EXCEPT !.rv = VideoDecoded(o.ret)]
  ELSE IF IsAudioPacket THEN
    LET a == [same EXCEPT !.kind = "audio", !.called = TRUE,
                          !.abuf = BufAfter(abuf, o, pkt.size)]
    IN IF o.ret < 0 THEN [a EXCEPT !.rv = o.ret, !.msgs = Say(AudioErr)]
       ELSE IF o.got THEN
         [a EXCEPT !.rv = AudioDecoded(o.ret), !.got_frame = TRUE,
                   !.audio_frame_count = audio_frame_count + 1,
                   !.audio_written = Append(audio_written, AudioChunk(o, cached))]
       ELSE [a EXCEPT !.rv = AudioDecoded(o.ret)]
  ELSE same

\* The decoder outcomes possible for the current packet (one dummy outcome
\* when decode_packet calls no decoder).
Outcomes == IF IsVideoPacket THEN VideoOutcomes
            ELSE IF IsAudioPacket THEN AudioOutcomes
            ELSE {NoFrame(0)}

\* ------------------------------------------------------------------- main
UsageErr       == "usage"
OpenInputErr   == "Error: Could not open source file"
StreamInfoErr  == "Error: Could not find stream information."
NoVideoErr     == "Could not find video stream/codec"
NoAudioErr     == "Could not find audio stream/codec"
OpenDstErr     == "Error: Could not open destination file"
AllocImageErr  == "Error: Could not allocate raw video buffer"
NoStreamErr    == "Error: Could not find audio or video stream in the in put, aborting"
AllocFrameErr  == "Error: Could not allocate frame"
SampleFmtErr   == "sample format is not supported as output format"
Succeeded      == "Demuxing succeeded."

video_stream == video_stream_idx # -1
audio_stream == audio_stream_idx # -1

\* line 325 with && for ||
StreamsMissingBoth == ~audio_stream /\ ~video_stream

\* line 325
StreamsMissing == ~audio_stream \/ ~video_stream

\* get_format_from_sample_fmt: 0 when the table has the format, else -1
get_format_from_sample_fmt(sfmt) ==
  IF sfmt \in {"u8", "s16", "s32", "flt", "dbl"} THEN 0 ELSE -1

Init ==
  /\ pc = "start"
  /\ argc \in 3 .. 6
  /\ argv1_refcount = (argc = 5)
  /\ refcount = 0
  /\ ret = 0
  /\ exit_status = -1
  /\ fmt_ctx = "null" /\ video_dec_ctx = "null" /\ audio_dec_ctx = "null"
  /\ video_dst_file = "null" /\ audio_dst_file = "null"
  /\ frame = "null" /\ video_dst_data = "null"
  /\ video_stream_idx = -1 /\ audio_stream_idx = -1
  /\ width = 0 /\ height = 0 /\ pix_fmt = "none"
  /\ video_dst_bufsize = 0
  /\ sample_fmt = "none" /\ channels = 0
  /\ pkt = [stream_index |-> 0, data |-> -1, size |-> 0]
  /\ got_frame = FALSE
  /\ video_frame_count = 0 /\ audio_frame_count = 0
  /\ video_written = <<>> /\ audio_written = <<>>
  /\ vbuf = 0 /\ abuf = 0
  /\ nread = 0 /\ decoder_called = FALSE
  /\ last = [kind |-> "none", before |-> 0, ret |-> 0]
  /\ msgs = {}
  /\ geom_changed = FALSE

Exit(status) == pc' = "exited" /\ exit_status' = status

\* lines 241-261: argument check and -refcount
ParseArgs ==
  /\ pc = "start"
  /\ IF argc # 4 /\ argc # 5
     THEN /\ msgs' = Say(UsageErr) /\ Exit(1) /\ UNCHANGED refcount
     ELSE /\ refcount' = IF argc = 5 /\ argv1_refcount THEN 1 ELSE refcount
          /\ pc' = "open_input"
          /\ UNCHANGED <<msgs, exit_status>>
  /\ UNCHANGED <<argc, argv1_refcount, ret, fmt_ctx, video_dec_ctx, audio_dec_ctx,
                 video_dst_file, audio_dst_file, frame, video_dst_data,
                 video_stream_idx, audio_stream_idx, width, height, pix_fmt,
                 video_dst_bufsize, sample_fmt, channels, pkt, got_frame,
                 video_frame_count, audio_frame_count, video_written,
                 audio_written, vbuf, abuf, nread, decoder_called, last, geom_changed>>

\* lines 265-272: avformat_open_input
OpenInput ==
  /\ pc = "open_input"
  /\ \E ok \in BOOLEAN :
       IF ok
       THEN /\ fmt_ctx' = "open" /\ pc' = "find_stream_info"
            /\ UNCHANGED <<msgs, exit_status>>
       ELSE /\ msgs' = Say(OpenInputErr) /\ Exit(1) /\ UNCHANGED fmt_ctx
  /\ UNCHANGED <<argc, argv1_refcount, refcount, ret, video_dec_ctx, audio_dec_ctx,
                 video_dst_file, audio_dst_file, frame, video_dst_data,
                 video_stream_idx, audio_stream_idx, width, height, pix_fmt,
                 video_dst_bufsize, sample_fmt, channels, pkt, got_frame,
                 video_frame_count, audio_frame_count, video_written,
                 audio_written, vbuf, abuf, nread, decoder_called, last, geom_changed>>

\* lines 275-278: avformat_find_stream_info
FindStreamInfo ==
  /\ pc = "find_stream_info"
  /\ \E ok \in BOOLEAN :
       IF ok
       THEN pc' = "open_video" /\ UNCHANGED <<msgs, exit_status>>
       ELSE msgs' = Say(StreamInfoErr) /\ Exit(1)
  /\ UNCHANGED <<argc, argv1_refcount, refcount, ret, fmt_ctx, video_dec_ctx,
                 audio_dec_ctx, video_dst_file, audio_dst_file, frame,
                 video_dst_data, video_stream_idx, audio_stream_idx, width,
                 height, pix_fmt, video_dst_bufsize, sample_fmt, channels, pkt,
                 got_frame, video_frame_count, audio_frame_count, video_written,
                 audio_written, vbuf, abuf, nread, decoder_called, last, geom_changed>>

\* open_codec_context: what av_find_best_stream, avcodec_find_decoder and
\* avcodec_open2 leave in *stream_idx for a media type whose stream in the
\* container is st: st itself, or -1 when one of the three fails.
VideoStreamNo == 0
AudioStreamNo == 1
CodecContexts(st) == {-1, st}

\* lines 283-306: the video decoder, its output file and the picture buffer
OpenVideo ==
  /\ pc = "open_video"
  /\ \E idx \in CodecContexts(VideoStreamNo), fopen_ok \in BOOLEAN, alloc_ok \in BOOLEAN,
        w \in Widths, h \in Heights, f \in PixFmts :
       IF idx < 0
       THEN /\ msgs' = Say(NoVideoErr) /\ pc' = "open_audio"
            /\ UNCHANGED <<ret, video_dec_ctx, video_dst_file, video_dst_data,
                           video_stream_idx, width, height, pix_fmt, video_dst_bufsize>>
       ELSE /\ video_stream_idx' = idx
            /\ video_dec_ctx' = "open"
            /\ IF ~fopen_ok
               THEN /\ msgs' = Say(OpenDstErr) /\ ret' = 1 /\ pc' = "end"
                    /\ UNCHANGED <<video_dst_file, video_dst_data, width, height,
                                   pix_fmt, video_dst_bufsize>>
               ELSE /\ video_dst_file' = "open"
                    /\ width' = w /\ height' = h /\ pix_fmt' = f
                    /\ IF ~alloc_ok
                       THEN /\ msgs' = Say(AllocImageErr) /\ ret' = -12 /\ pc' = "end"
                            /\ UNCHANGED <<video_dst_data, video_dst_bufsize>>
                       ELSE /\ ret' = ImageBufSize(w, h, f)
                            /\ video_dst_data' = "open"
                            /\ video_dst_bufsize' = ImageBufSize(w, h, f)
                            /\ pc' = "open_audio"
                            /\ UNCHANGED msgs
  /\ UNCHANGED <<argc, argv1_refcount, refcount, exit_status, fmt_ctx, audio_dec_ctx,
                 audio_dst_file, frame, audio_stream_idx, sample_fmt, channels, pkt,
                 got_frame, video_frame_count, audio_frame_count, video_written,
                 audio_written, vbuf, abuf, nread, decoder_called, last, geom_changed>>

\* lines 309-320: the audio decoder and its output file
OpenAudio ==
  /\ pc = "open_audio"
  /\ \E idx \in CodecContexts(AudioStreamNo), fopen_ok \in BOOLEAN,
        sf \in SampleFmts, ch \in Channels :
       IF idx < 0
       THEN /\ msgs' = Say(NoAudioErr) /\ pc' = "check_streams"
            /\ UNCHANGED <<ret, audio_dec_ctx, audio_dst_file, audio_stream_idx,
                           sample_fmt, channels>>
       ELSE /\ audio_stream_idx' = idx
            /\ audio_dec_ctx' = "open"
            /\ sample_fmt' = sf /\ channels' = ch
            /\ IF ~fopen_ok
               THEN /\ msgs' = Say(OpenDstErr) /\ ret' = 1 /\ pc' = "end"
                    /\ UNCHANGED audio_dst_file
               ELSE /\ audio_dst_file' = "open" /\ pc' = "check_streams"
                    /\ UNCHANGED <<msgs, ret>>
  /\ UNCHANGED <<argc, argv1_refcount, refcount, exit_status, fmt_ctx, video_dec_ctx,
                 video_dst_file, frame, video_dst_data, video_stream_idx, width,
                 height, pix_fmt, video_dst_bufsize, pkt, got_frame,
                 video_frame_count, audio_frame_count, video_written,
                 audio_written, vbuf, abuf, nread, decoder_called, last, geom_changed>>

\* lines 323-347: both streams are required; the frame; the empty packet
CheckStreams ==
  /\ pc = "check_streams"
  /\ \E alloc_ok \in BOOLEAN :
       IF StreamsMissing
       THEN /\ msgs' = Say(NoStreamErr) /\ ret' = 1 /\ pc' = "end"
            /\ UNCHANGED <<frame, pkt>>
       ELSE IF ~alloc_ok
       THEN /\ msgs' = Say(AllocFrameErr) /\ ret' = -12 /\ pc' = "end"
            /\ UNCHANGED <<frame, pkt>>
       ELSE /\ frame' = "open"
            /\ pkt' = [stream_index |-> 0, data |-> -1, size |-> 0]
            /\ pc' = "read"
            /\ UNCHANGED <<msgs, ret>>
  /\ UNCHANGED <<argc, argv1_refcount, refcount, exit_status, fmt_ctx, video_dec_ctx,
                 audio_dec_ctx, video_dst_file, audio_dst_file, video_dst_data,
                 video_stream_idx, audio_stream_idx, width, height, pix_fmt,
                 video_dst_bufsize, sample_fmt, channels, got_frame,
                 video_frame_count, audio_frame_count, video_written,
                 audio_written, vbuf, abuf, nread, decoder_called, last, geom_changed>>

\* The assignments one decode_packet call with result r makes, and the record
\* of the call.
Decoded(r, o) ==
  /\ got_frame' = r.got_frame
  /\ video_frame_count' = r.video_frame_count
  /\ audio_frame_count' = r.audio_frame_count
  /\ video_written' = r.video_written
  /\ audio_written' = r.audio_written
  /\ vbuf' = r.vbuf /\ abuf' = r.abuf
  /\ msgs' = r.msgs
  /\ geom_changed' = r.geom_changed
  /\ decoder_called' = (decoder_called \/ r.called)
  /\ last' = [kind |-> r.kind, before |-> pkt.size, ret |-> o.ret]

\* line 350 and, once av_read_frame returns < 0, lines 365-366
ReadFrame ==
  /\ pc = "read"
  /\ \/ /\ nread < MaxPackets
        /\ \E s \in Streams, n \in PktSizes :
             pkt' = [stream_index |-> s, data |-> 0, size |-> n]
        /\ nread' = nread + 1
        /\ pc' = "decode"
     \/ /\ \E s \in {pkt.stream_index, 0} :
             pkt' = [stream_index |-> s, data |-> -1, size |-> 0]
        /\ pc' = "flush"
        /\ UNCHANGED nread
  /\ last' = [kind |-> "none", before |-> 0, ret |-> 0]
  /\ UNCHANGED <<argc, argv1_refcount, refcount, ret, exit_status, fmt_ctx,
                 video_dec_ctx, audio_dec_ctx, video_dst_file, audio_dst_file,
                 frame, video_dst_data, video_stream_idx, audio_stream_idx,
                 width, height, pix_fmt, video_dst_bufsize, sample_fmt, channels,
                 got_frame, video_frame_count, audio_frame_count, video_written,
                 audio_written, vbuf, abuf, decoder_called, msgs, geom_changed>>

\* line 360 as a single pass over the packet
MorePacketBytesNever(size) == FALSE

\* line 360: while (pkt.size > 0)
MorePacketBytes(size) == size > 0

\* lines 352-361: one iteration of the do/while over the packet's bytes
DecodeStep ==
  /\ pc = "decode"
  /\ \E o \in Outcomes :
       LET r == decode_packet(FALSE, o) IN
       /\ Decoded(r, o)
       /\ ret' = r.rv
       /\ IF r.rv < 0
          THEN pc' = "read" /\ UNCHANGED pkt
          ELSE /\ pkt' = [pkt EXCEPT !.data = @ + r.rv, !.size = @ - r.rv]
               /\ pc' = IF MorePacketBytes(pkt.size - r.rv) THEN "decode" ELSE "read"
  /\ UNCHANGED <<argc, argv1_refcount, refcount, exit_status, fmt_ctx,
                 video_dec_ctx, audio_dec_ctx, video_dst_file, audio_dst_file,
                 frame, video_dst_data, video_stream_idx, audio_stream_idx,
                 width, height, pix_fmt, video_dst_bufsize, sample_fmt, channels,
                 nread>>

\* lines 368-370: one iteration of the flush loop
FlushStep ==
  /\ pc = "flush"
  /\ \E o \in Outcomes :
       LET r == decode_packet(TRUE, o) IN
       /\ Decoded(r, o)
       /\ pc' = IF r.got_frame THEN "flush" ELSE "report"
  /\ UNCHANGED <<argc, argv1_refcount, refcount, ret, exit_status, fmt_ctx,
                 video_dec_ctx, audio_dec_ctx, video_dst_file, audio_dst_file,
                 frame, video_dst_data, video_stream_idx, audio_stream_idx,
                 width, height, pix_fmt, video_dst_bufsize, sample_fmt, channels,
                 pkt, nread>>

\* lines 372-402: the success message and the playback instructions
Report ==
  /\ pc = "report"
  /\ LET sfmt == IF av_sample_fmt_is_planar(sample_fmt)
                 THEN av_get_packed_sample_fmt(sample_fmt) ELSE sample_fmt
     IN IF audio_stream
        THEN /\ ret' = get_format_from_sample_fmt(sfmt)
             /\ msgs' = IF get_format_from_sample_fmt(sfmt) < 0
                        THEN msgs \cup {Succeeded, SampleFmtErr}
                        ELSE Say(Succeeded)
        ELSE msgs' = Say(Succeeded) /\ UNCHANGED ret
  /\ pc' = "end"
  /\ UNCHANGED <<argc, argv1_refcount, refcount, exit_status, fmt_ctx,
                 video_dec_ctx, audio_dec_ctx, video_dst_file, audio_dst_file,
                 frame, video_dst_data, video_stream_idx, audio_stream_idx,
                 width, height, pix_fmt, video_dst_bufsize, sample_fmt, channels,
                 pkt, got_frame, video_frame_count, audio_frame_count,
                 video_written, audio_written, vbuf, abuf, nread, decoder_called, last,
                 geom_changed>>

\* lines 404-416: the cleanup at label end, and main's return value
Cleanup ==
  /\ pc = "end"
  /\ video_dec_ctx' = Release(video_dec_ctx)
  /\ audio_dec_ctx' = Release(audio_dec_ctx)
  /\ fmt_ctx' = Release(fmt_ctx)
  /\ video_dst_file' = Release(video_dst_file)
  /\ audio_dst_file' = Release(audio_dst_file)
  /\ frame' = Release(frame)
  /\ video_dst_data' = Release(video_dst_data)
  /\ Exit(0)
  /\ UNCHANGED <<argc, argv1_refcount, refcount, ret, video_stream_idx,
                 audio_stream_idx, width, height, pix_fmt, video_dst_bufsize,
                 sample_fmt, channels, pkt, got_frame, video_frame_count,
                 audio_frame_count, video_written, audio_written, vbuf, abuf,
                 nread, decoder_called, last, msgs, geom_changed>>

Next ==
  \/ ParseArgs \/ OpenInput \/ FindStreamInfo \/ OpenVideo \/ OpenAudio
  \/ CheckStreams \/ ReadFrame \/ DecodeStep \/ FlushStep \/ Report \/ Cleanup

Spec == Init /\ [][Next]_vars

\* ------------------------------------------------------------ properties
FatalMsgs == {UsageErr, OpenInputErr, StreamInfoErr, OpenDstErr, AllocImageErr,
              NoStreamErr, AllocFrameErr, SampleFmtErr}
DecodeMsgs == {VideoErr, AudioErr, GeomErr}
Handles == <<fmt_ctx, video_dec_ctx, audio_dec_ctx, video_dst_file,
             audio_dst_file, frame, video_dst_data>>
Selected == pkt.stream_index \in {video_stream_idx, audio_stream_idx}
\* the step taken from this state calls avcodec_decode_video2 or _audio4
CallsDecoder == pc \in {"decode", "flush"} /\ Selected

\* C1: the exit status is 1 on a usage error and on every unrecoverable
\* failure, and 0 only when the run succeeded.
C1_ExitStatus ==
  pc = "exited" =>
    /\ (msgs \cap FatalMsgs # {} => exit_status = 1)
    /\ (exit_status = 0 => msgs \cap FatalMsgs = {} /\ Succeeded \in msgs)

\* C2: at process exit every acquired resource has been released exactly
\* once; no exit path leaves the input, a decoder or an output file open.
C2_AllReleasedAtExit ==
  pc = "exited" => \A i \in DOMAIN Handles : Handles[i] \in {"null", "released"}

\* C3: once a video frame of differing width, height or pixel format was
\* obtained, no packet is read, no decoder is called, nothing is appended to
\* either output file and "Demuxing succeeded." is not reported.
C3_GeometryChangeIsFatal ==
  [][geom_changed =>
       /\ nread' = nread
       /\ ~CallsDecoder
       /\ video_written' = video_written /\ audio_written' = audio_written
       /\ Succeeded \notin msgs']_vars

\* C4: when the run reports success, neither decoder still holds a frame
\* (stated for the runs in which no decoder call reported an error).
C4_BothDecodersDrained ==
  Succeeded \in msgs /\ msgs \cap DecodeMsgs = {} => vbuf = 0 /\ abuf = 0

\* C5: every decode_packet call on a packet advances pkt.data and shrinks
\* pkt.size by the byte count the call returns (the whole packet for a video
\* packet, min(decoder's count, pkt.size) for an audio packet), and the next
\* packet is read only when pkt.size is 0 or a decode call failed; one packet
\* may give several frames.
C5_PacketConsumption ==
  /\ pkt.size >= 0
  /\ pkt.data >= 0 => pkt.data + pkt.size \in PktSizes
  /\ pc = "read" => pkt.size = 0 \/ ret < 0
  /\ last.before > 0 =>
       /\ ret < 0 => pkt.size = last.before /\ pc = "read"
       /\ last.kind \in {"video", "other"} /\ ret >= 0 =>
            ret = last.before /\ pkt.size = 0
       /\ last.kind = "audio" /\ ret >= 0 =>
            /\ ret = FFMIN(last.ret, last.before)
            /\ pkt.size = last.before - ret

\* C5 witness: an audio packet took two calls and gave two frames, and a
\* video packet was used up by the call made on it.
C5_Witness ==
  /\ last.kind = "video" /\ ret >= 0 /\ pkt.size = 0 /\ pc = "read"
  /\ \E i, j \in DOMAIN audio_written :
       i < j /\ audio_written[i].seq = audio_written[j].seq
             /\ ~audio_written[j].cached

\* C6: when open_codec_context failed for the video or for the audio stream,
\* the run ends with an error message before any packet is read: no
\* av_read_frame, no decoder call, no byte in either output file.
C6_MissingStreamStopsBeforeReading ==
  msgs \cap {NoVideoErr, NoAudioErr} # {} =>
    /\ nread = 0 /\ ~decoder_called
    /\ video_written = <<>> /\ audio_written = <<>>
    /\ pc \notin {"read", "decode", "flush", "report"}
    /\ Succeeded \notin msgs
    /\ pc = "exited" => msgs \cap FatalMsgs # {}

\* C6 witness: the video stream is missing, the audio decoder and its output
\* file were opened, and the run is over.
C6_Witness ==
  /\ pc = "exited" /\ NoVideoErr \in msgs /\ NoAudioErr \notin msgs
  /\ audio_dec_ctx = "released" /\ audio_dst_file = "released"

RECURSIVE VideoFileBytes(_)
VideoFileBytes(f) == IF f = <<>> THEN 0 ELSE Head(f).n + VideoFileBytes(Tail(f))

FirstChannel(nb, bps) == Concat([i \in 1 .. nb |-> SampleBytes(0, i - 1, bps)])

\* C8: what is appended for an audio frame is exactly the nb_samples samples
\* of the frame's first channel, for planar and for packed formats alike.
C8_FirstChannelOnly ==
  \A i \in DOMAIN audio_written :
    audio_written[i].data =
      FirstChannel(audio_written[i].nb, av_get_bytes_per_sample(sample_fmt))

Ordered(f) ==
  \A i, j \in DOMAIN f :
    i < j => f[i].seq <= f[j].seq /\ (f[i].cached => f[j].cached)

\* C9: each output file holds its frames in the order their packets were
\* read, the frames of the flush phase after all others, and a packet of a
\* stream that is neither selected stream causes no decoder call and no write
\* and leaves both files, both counters and both decoders as they were.
C9_PacketOrder ==
  /\ [](/\ Ordered(video_written) /\ Ordered(audio_written)
        /\ \A i \in DOMAIN video_written :
             video_written[i].cached => pc \notin {"read", "decode"}
        /\ \A i \in DOMAIN audio_written :
             audio_written[i].cached => pc \notin {"read", "decode"})
  /\ [][pc = "decode" /\ pkt.stream_index \notin {video_stream_idx, audio_stream_idx}
          => /\ last'.kind = "other"
             /\ UNCHANGED <<decoder_called, video_written, audio_written,
                            video_frame_count, audio_frame_count, vbuf, abuf>>]_vars

\* C9 witness: the audio output holds a frame of the first packet, then a
\* frame of the second, then a frame of the flush phase.
C9_Witness ==
  /\ pc = "exited"
  /\ \E i, j, k \in DOMAIN audio_written :
       /\ i < j /\ j < k
       /\ audio_written[i].seq < audio_written[j].seq
       /\ ~audio_written[j].cached /\ audio_written[k].cached

\* C10: every iteration of the per-packet do/while loop strictly decreases
\* pkt.size or leaves the loop.
C10_EachIterationShrinks ==
  [][pc = "decode" => pkt'.size < pkt.size \/ pc' # "decode"]_vars

====
